---------------------------- MODULE Spec2Model ----------------------------
(***************************************************************************)
(* State-machine model of staffing_optimization/project.py.                *)
(*                                                                         *)
(* solve_problem is modelled statement by statement: the profit table, the *)
(* three addVars calls, update, setObjective, the nine addConstrs calls,   *)
(* optimize and the report.  Python indices are 0-based and kept so; a     *)
(* Python list l is the sequence l and l[i] is l[i + 1].                   *)
(*                                                                         *)
(* The solving engine (gurobipy) is an external collaborator.  It is       *)
(* modelled by its documented interface: a binary program over the         *)
(* created variables, the submitted constraint groups and the objective.   *)
(* The module gurobipy exports abs_, and_, or_, max_, min_, norm and       *)
(* quicksum; it exports no attribute all_, so evaluating `gurobipy.all_`   *)
(* raises AttributeError.                                                  *)
(***************************************************************************)
EXTENDS Integers, Sequences, FiniteSets, TLC

(***************************************************************************)
(* Bounds of the model.                                                    *)
(***************************************************************************)
\* largest horizon of the enumerated instances
MaxHorizon == 2
\* largest number of employees of the enumerated instances
MaxStaff == 1
\* largest number of jobs of the enumerated instances
MaxJobs == 1
\* largest number of labels in the global qualification list
MaxQuals == 2
\* largest variable index of the solved variable lists given to the report
MaxIndex == 10

(***************************************************************************)
(* Python helpers.                                                         *)
(***************************************************************************)
Range(s) == {s[i] : i \in DOMAIN s}

\* range(n)
PyRange(n) == 0 .. (n - 1)

\* max(a, b)
Max(a, b) == IF a >= b THEN a ELSE b

\* dict.get(key, default)
Get(d, key, default) == IF key \in DOMAIN d THEN d[key] ELSE default

\* sum of f[i] for i in lo..hi (quicksum over a range)
RECURSIVE SumRange(_, _, _)
SumRange(f, lo, hi) == IF lo > hi THEN 0 ELSE f[hi] + SumRange(f, lo, hi - 1)

(***************************************************************************)
(* Entities (entities/employee.py, entities/job.py) and ProblemData.       *)
(***************************************************************************)
Employee(name, qualifications, vacations) ==
    [name |-> name, qualifications |-> qualifications, vacations |-> vacations]

Job(name, gain, due_date, daily_penalty, working_days_per_qualification) ==
    [name |-> name, gain |-> gain, due_date |-> due_date,
     daily_penalty |-> daily_penalty,
     working_days_per_qualification |-> working_days_per_qualification]

ProblemData(horizon, qualifications, staff, jobs) ==
    [horizon |-> horizon, qualifications |-> qualifications,
     staff |-> staff, jobs |-> jobs]

\* names are unique identifiers; the instances name entities by position
EmployeeName(i) == <<"employee", i>>
JobName(i) == <<"job", i>>

AllLabels == <<"A", "B", "C", "D", "E", "F", "G", "H", "I", "J", "K", "L", "M">>

\* a dict with the single entry label: days
Requirement(label, days) == [l \in {label} |-> days]

(***************************************************************************)
(* The instances the model runs solve_problem on.                          *)
(***************************************************************************)
GainValues == {-5, 50}
DueValues == {0}
PenaltyValues == {20, 60}
RequirementValues == {<<>>, Requirement("A", 1)}

\* an unqualified employee, a qualified one on vacation on day 0, and a
\* qualified one whose vacation day is the day after the horizon
EmployeeAttrs(h) ==
    {[qualifications |-> <<>>, vacations |-> <<>>],
     [qualifications |-> <<"A">>, vacations |-> <<0>>],
     [qualifications |-> <<"A">>, vacations |-> <<h>>]}

JobAttrs ==
    [gain : GainValues, due_date : DueValues, daily_penalty : PenaltyValues,
     working_days_per_qualification : RequirementValues]

StaffLists(h) ==
    UNION {{[i \in 1..n |->
                Employee(EmployeeName(i - 1), a[i].qualifications, a[i].vacations)]
            : a \in [1..n -> EmployeeAttrs(h)]} : n \in 0..MaxStaff}

JobLists ==
    UNION {{[i \in 1..n |->
                Job(JobName(i - 1), a[i].gain, a[i].due_date, a[i].daily_penalty,
                    a[i].working_days_per_qualification)]
            : a \in [1..n -> JobAttrs]} : n \in 0..MaxJobs}

QualLists == {SubSeq(AllLabels, 1, n) : n \in 1..MaxQuals}

SmallInstances ==
    UNION {{ProblemData(h, q, s, j) : q \in QualLists, s \in StaffLists(h), j \in JobLists}
           : h \in 0..MaxHorizon}

\* the scenarios of the specification: one employee holding "A", no vacations,
\* one job requiring 2 days of "A"
ScenarioStaff == <<Employee(EmployeeName(0), <<"A">>, <<>>)>>
ScenarioJob == Job(JobName(0), 100, 5, 10, Requirement("A", 2))
LateJob == Job(JobName(0), 50, 3, 20, Requirement("A", 2))
ScenarioLong == ProblemData(10, <<"A">>, ScenarioStaff, <<ScenarioJob>>)
ScenarioShort == ProblemData(1, <<"A">>, ScenarioStaff, <<ScenarioJob>>)
ScenarioLate == ProblemData(10, <<"A">>, ScenarioStaff, <<LateJob>>)

Instances == SmallInstances \cup {ScenarioLong, ScenarioShort, ScenarioLate}


(***************************************************************************)
(* State: the locals of solve_problem, the solver handle and the output.   *)
(***************************************************************************)
VARIABLES
    data,           \* the ProblemData argument
    pc,             \* the statement solve_problem is about to execute
    profits_jobs,   \* dict (job_index, day) -> profit
    X, Y, Z,        \* tupledicts, held as the index ranges given to addVars
    objective,      \* the objective held by the model
    constrs,        \* the constraint groups submitted, in order
    optimizeCalls,  \* number of calls of model.optimize()
    status,         \* model.Status
    objVal,         \* model.ObjVal
    solved,         \* model.getVars() after optimize: (varName, x) per variable
    output,         \* what solve_problem printed
    exception,      \* the exception that ended the run, if any
    log             \* the statements executed so far

vars == <<data, pc, profits_jobs, X, Y, Z, objective, constrs, optimizeCalls,
          status, objVal, solved, output, exception, log>>

NoVars == <<>>

StaffCount == Len(data.staff)
JobCount == Len(data.jobs)
QualCount == Len(data.qualifications)

\* data["staff"][i], data["jobs"][i], data["qualifications"][i]
StaffAt(i) == data.staff[i + 1]
JobAt(i) == data.jobs[i + 1]
QualAt(i) == data.qualifications[i + 1]

(***************************************************************************)
(* get_profit (project.py 52-55).                                          *)
(***************************************************************************)
get_profit_unfloored(project, end_date) ==
    IF project.due_date >= end_date
    THEN project.gain
    ELSE project.gain - project.daily_penalty * (end_date - project.due_date)

get_profit(project, end_date) ==
    IF project.due_date >= end_date
    THEN project.gain
    ELSE Max(project.gain - project.daily_penalty * (end_date - project.due_date), 0)

(***************************************************************************)
(* Variables of the model.  addVars(n1, .., nk, name=N) creates one binary *)
(* variable per index tuple of range(n1) x .. x range(nk), named           *)
(* "N[i1,..,ik]"; getVars() lists them in creation order.                  *)
(***************************************************************************)
Keys(kind, dims) ==
    IF dims = NoVars THEN {}
    ELSE IF Len(dims) = 3
    THEN {<<kind, a, b, c>> : a \in PyRange(dims[1]), b \in PyRange(dims[2]),
                              c \in PyRange(dims[3])}
    ELSE {<<kind, a, b>> : a \in PyRange(dims[1]), b \in PyRange(dims[2])}

ModelVars == Keys("X", X) \cup Keys("Y", Y) \cup Keys("Z", Z)

\* the keys of one tupledict in creation (lexicographic) order
KeyList(kind, dims) ==
    IF dims = NoVars THEN <<>>
    ELSE IF Len(dims) = 3
    THEN [i \in 1..(dims[1] * dims[2] * dims[3]) |->
            <<kind, (i - 1) \div (dims[2] * dims[3]),
                    ((i - 1) \div dims[3]) % dims[2],
                    (i - 1) % dims[3]>>]
    ELSE [i \in 1..(dims[1] * dims[2]) |->
            <<kind, (i - 1) \div dims[2], (i - 1) % dims[2]>>]

VarList == KeyList("X", X) \o KeyList("Y", Y) \o KeyList("Z", Z)

\* str(n) for n >= 0, as a sequence of characters
RECURSIVE Digits(_)
Digits(n) ==
    LET d == <<"0", "1", "2", "3", "4", "5", "6", "7", "8", "9">>[(n % 10) + 1]
    IN IF n < 10 THEN <<d>> ELSE Digits(n \div 10) \o <<d>>

\* the name gurobipy gives a variable: "X[1,0,2]", as a sequence of characters
VarName(key) ==
    LET idx == Tail(key)
        RECURSIVE Join(_)
        Join(k) == IF k = 1 THEN Digits(idx[1])
                   ELSE Join(k - 1) \o <<",">> \o Digits(idx[k])
    IN <<key[1], "[">> \o Join(Len(idx)) \o <<"]">>

(***************************************************************************)
(* Constraint groups.  A group submitted by addConstrs is held as its name *)
(* and the index tuples its generator produced; an assignment is a         *)
(* function from the variables of the model to {0, 1}.                     *)
(***************************************************************************)
NeedQualification == "Need to have qualification to work on a job"
OneQualification == "One qualification per employee per job"
OneJobPerDay == "One job per employee per day"
NoWorkOnVacation == "No work on vacation"
ProjectRealized ==
    "Project is realized when each qualification has been staffed the right number of days"
RealizedOnce == "A job can only be realized once"
WorkIfAssigned ==
    "If an employee is assigned to a job for a qualification, he must work for this job at least one day"
StaffedDaysCap ==
    "Staffed days of qualification <= number of days of work of the qualification"

Group(name, items) == [name |-> name, items |-> items]

\* generator of lines 158-167
NeedQualificationItems ==
    {<<e, j, q>> \in PyRange(StaffCount) \X PyRange(JobCount) \X PyRange(QualCount) :
        QualAt(q) \notin Range(StaffAt(e).qualifications)}

\* generator of lines 171-182
OneQualificationItems == PyRange(StaffCount) \X PyRange(JobCount)

\* generator of lines 186-197
OneJobPerDayItems == PyRange(StaffCount) \X PyRange(data.horizon)

\* generator of lines 201-209 and of lines 213-221
NoWorkOnVacationItems ==
    UNION {{<<e, j, d>> : d \in Range(StaffAt(e).vacations)}
           : e \in PyRange(StaffCount), j \in PyRange(JobCount)}

\* generator of lines 231-259
ProjectRealizedItems == PyRange(JobCount) \X PyRange(data.horizon)

\* generator of lines 262-269
RealizedOnceItems == {<<j>> : j \in PyRange(JobCount)}

\* generator of lines 275-286
WorkIfAssignedItems == PyRange(StaffCount) \X PyRange(JobCount) \X PyRange(QualCount)

\* generator of lines 291-304
StaffedDaysCapItems == PyRange(JobCount) \X PyRange(QualCount)

\* sum over e and d2 <= lastDay of Y[e, j, q] * X[e, j, d2]
QualifiedDays(a, j, q, lastDay) ==
    SumRange([e \in PyRange(StaffCount) |->
                SumRange([d \in 0..lastDay |-> a[<<"Y", e, j, q>>] * a[<<"X", e, j, d>>]],
                         0, lastDay)],
             0, StaffCount - 1)

\* the constraint a group holds at one index tuple
ConstraintHolds(a, name, i) ==
    CASE name = NeedQualification -> a[<<"Y", i[1], i[2], i[3]>>] = 0
      [] name = OneQualification ->
            SumRange([q \in PyRange(QualCount) |-> a[<<"Y", i[1], i[2], q>>]],
                     0, QualCount - 1) <= 1
      [] name = OneJobPerDay ->
            SumRange([j \in PyRange(JobCount) |-> a[<<"X", i[1], j, i[2]>>]],
                     0, JobCount - 1) <= 1
      [] name = NoWorkOnVacation -> a[<<"X", i[1], i[2], i[3]>>] = 0
      [] name = RealizedOnce ->
            SumRange([d \in PyRange(data.horizon) |-> a[<<"Z", i[1], d>>]],
                     0, data.horizon - 1) = 1
      [] name = WorkIfAssigned ->
            SumRange([d \in PyRange(data.horizon) |-> a[<<"X", i[1], i[2], d>>]],
                     0, data.horizon - 1) >= a[<<"Y", i[1], i[2], i[3]>>]
      [] name = StaffedDaysCap ->
            QualifiedDays(a, i[1], i[2], data.horizon - 1)
                <= Get(JobAt(i[1]).working_days_per_qualification, QualAt(i[2]), 0)

Satisfies(a, group) == \A i \in group.items : ConstraintHolds(a, group.name, i)

SatisfiesAll(a) == \A k \in DOMAIN constrs : Satisfies(a, constrs[k])

Assignments == [ModelVars -> {0, 1}]

Feasible == {a \in Assignments : SatisfiesAll(a)}

\* the objective of lines 107-114 at an assignment
ObjectiveValue(a) ==
    SumRange([j \in PyRange(JobCount) |->
                SumRange([d \in PyRange(data.horizon) |->
                            objective.coeff[<<j, d>>] * a[<<"Z", j, d>>]],
                         0, data.horizon - 1)],
             0, JobCount - 1)

Optimal == {a \in Feasible : \A b \in Feasible : ObjectiveValue(b) <= ObjectiveValue(a)}

(***************************************************************************)
(* The report of lines 315-345.                                            *)
(***************************************************************************)
DigitChars == {"0", "1", "2", "3", "4", "5", "6", "7", "8", "9"}

\* int(c) of a one-character string c raises ValueError unless c is a digit
IsDigit(c) == c \in DigitChars

PyInt(c) ==
    CASE c = "0" -> 0 [] c = "1" -> 1 [] c = "2" -> 2 [] c = "3" -> 3
      [] c = "4" -> 4 [] c = "5" -> 5 [] c = "6" -> 6 [] c = "7" -> 7
      [] c = "8" -> 8 [] c = "9" -> 9

\* s[i] of a Python string
CharAt(s, i) == s[i + 1]

\* the outcome of one indexing list[int(varName[i])]
Lookup(list, varName, i) ==
    IF ~IsDigit(CharAt(varName, i)) THEN [exc |-> "ValueError"]
    ELSE IF PyInt(CharAt(varName, i)) + 1 \notin DOMAIN list THEN [exc |-> "IndexError"]
    ELSE [exc |-> "none", value |-> list[PyInt(CharAt(varName, i)) + 1]]

\* the outcome of int(varName[i])
DayOf(varName, i) ==
    IF ~IsDigit(CharAt(varName, i)) THEN [exc |-> "ValueError"]
    ELSE [exc |-> "none", value |-> PyInt(CharAt(varName, i))]

\* the exception of the first of the evaluations rs that raises
FirstError(rs) ==
    IF \E k \in DOMAIN rs : rs[k].exc # "none"
    THEN rs[CHOOSE k \in DOMAIN rs : rs[k].exc # "none"
                                     /\ \A m \in 1..(k - 1) : rs[m].exc = "none"].exc
    ELSE "none"

\* the body of the loop of lines 317-343 for one variable: the lines printed
\* and the exception raised, if any
ReportVar(v) ==
    IF v.x # 1 THEN [exc |-> "none", lines |-> <<>>]
    ELSE IF CharAt(v.varName, 0) = "X"
    THEN LET e == Lookup(data.staff, v.varName, 2)
             j == Lookup(data.jobs, v.varName, 4)
             d == DayOf(v.varName, 6)
             err == FirstError(<<e, j, d>>)
         IN IF err # "none" THEN [exc |-> err, lines |-> <<>>]
            ELSE [exc |-> "none",
                  lines |-> <<[fact |-> "works", employee |-> e.value.name,
                               job |-> j.value.name, day |-> d.value]>>]
    ELSE IF CharAt(v.varName, 0) = "Y"
    THEN LET e == Lookup(data.staff, v.varName, 2)
             j == Lookup(data.jobs, v.varName, 4)
             q == Lookup(data.qualifications, v.varName, 6)
             err == FirstError(<<e, j, q>>)
         IN IF err # "none" THEN [exc |-> err, lines |-> <<>>]
            ELSE [exc |-> "none",
                  lines |-> <<[fact |-> "assigned", employee |-> e.value.name,
                               job |-> j.value.name, qualification |-> q.value]>>]
    ELSE IF CharAt(v.varName, 0) = "Z"
    THEN LET j == Lookup(data.jobs, v.varName, 2)
             d == DayOf(v.varName, 4)
             err == FirstError(<<j, d>>)
         IN IF err # "none" THEN [exc |-> err, lines |-> <<>>]
            ELSE [exc |-> "none",
                  lines |-> <<[fact |-> "finished", job |-> j.value.name,
                               day |-> d.value]>>]
    ELSE [exc |-> "none", lines |-> <<>>]

\* the loop of lines 317-343 from variable i on, having printed `lines`
RECURSIVE ReportLoop(_, _)
ReportLoop(i, lines) ==
    IF i > Len(solved) THEN [exc |-> "none", lines |-> lines]
    ELSE LET r == ReportVar(solved[i])
         IN IF r.exc # "none" THEN [exc |-> r.exc, lines |-> lines]
            ELSE ReportLoop(i + 1, lines \o r.lines)

\* line 315
ReportsAnyStatus(s) == TRUE

IsOptimal(s) == s = "OPTIMAL"

(***************************************************************************)
(* solve_problem, one action per statement.                                *)
(***************************************************************************)
Init ==
    /\ data \in Instances
    /\ pc = "profits"
    /\ profits_jobs = <<>>
    /\ X = NoVars /\ Y = NoVars /\ Z = NoVars
    /\ objective = [sense |-> "none", coeff |-> <<>>]
    /\ constrs = <<>>
    /\ optimizeCalls = 0
    /\ status = "LOADED"
    /\ objVal = 0
    /\ solved = <<>>
    /\ output = <<>>
    /\ exception = "none"
    /\ log = <<>>

\* lines 61-66
ComputeProfits ==
    /\ pc = "profits"
    /\ profits_jobs' = [k \in PyRange(JobCount) \X PyRange(data.horizon) |->
                            get_profit(JobAt(k[1]), k[2])]
    /\ pc' = "addX"
    /\ log' = Append(log, "profits")
    /\ UNCHANGED <<data, X, Y, Z, objective, constrs, optimizeCalls, status, objVal,
                   solved, output, exception>>

\* lines 73-79
AddVarsX ==
    /\ pc = "addX"
    /\ X' = <<StaffCount, JobCount, data.horizon>>
    /\ pc' = "addY"
    /\ log' = Append(log, "variables")
    /\ UNCHANGED <<data, profits_jobs, Y, Z, objective, constrs, optimizeCalls, status,
                   objVal, solved, output, exception>>

\* lines 81-87
AddVarsY ==
    /\ pc = "addY"
    /\ Y' = <<StaffCount, JobCount, QualCount>>
    /\ pc' = "addZ"
    /\ log' = Append(log, "variables")
    /\ UNCHANGED <<data, profits_jobs, X, Z, objective, constrs, optimizeCalls, status,
                   objVal, solved, output, exception>>

\* lines 89-105 (addVars for Z, then model.update)
AddVarsZ ==
    /\ pc = "addZ"
    /\ Z' = <<JobCount, data.horizon>>
    /\ pc' = "setObjective"
    /\ log' = Append(log, "variables")
    /\ UNCHANGED <<data, profits_jobs, X, Y, objective, constrs, optimizeCalls, status,
                   objVal, solved, output, exception>>

\* lines 107-114
SetObjective ==
    /\ pc = "setObjective"
    /\ objective' = [sense |-> "MAXIMIZE",
                     coeff |-> [k \in PyRange(JobCount) \X PyRange(data.horizon) |->
                                    profits_jobs[k]]]
    /\ pc' = "c1"
    /\ log' = Append(log, "objective")
    /\ UNCHANGED <<data, profits_jobs, X, Y, Z, constrs, optimizeCalls, status, objVal,
                   solved, output, exception>>

\* model.addConstrs(generator, name=name) reached at `at`, continuing at `next`
AddConstrs(at, next, name, items) ==
    /\ pc = at
    /\ constrs' = Append(constrs, Group(name, items))
    /\ pc' = next
    /\ log' = Append(log, "constraints")
    /\ UNCHANGED <<data, profits_jobs, X, Y, Z, objective, optimizeCalls, status, objVal,
                   solved, output, exception>>

\* an exception leaves solve_problem; the constraints of the interrupted
\* group made before it are not recorded, the model is never returned
Raise(at, exc) ==
    /\ pc = at
    /\ pc' = "raised"
    /\ exception' = exc
    /\ UNCHANGED <<data, profits_jobs, X, Y, Z, objective, constrs, optimizeCalls, status,
                   objVal, solved, output, log>>

\* lines 158-167
AddNeedQualification == AddConstrs("c1", "c2", NeedQualification, NeedQualificationItems)

\* lines 171-182
AddOneQualification == AddConstrs("c2", "c3", OneQualification, OneQualificationItems)

\* lines 186-197
AddOneJobPerDay == AddConstrs("c3", "c4", OneJobPerDay, OneJobPerDayItems)

\* X[employee_index, job_index, day] of lines 203 and 215 raises KeyError
\* when the tupledict X has no such key
VacationKeyError ==
    \E i \in NoWorkOnVacationItems : <<"X", i[1], i[2], i[3]>> \notin Keys("X", X)

\* lines 201-209
AddNoWorkOnVacation ==
    IF VacationKeyError
    THEN Raise("c4", "KeyError")
    ELSE AddConstrs("c4", "c4again", NoWorkOnVacation, NoWorkOnVacationItems)

\* lines 213-221
AddNoWorkOnVacationAgain ==
    IF VacationKeyError
    THEN Raise("c4again", "KeyError")
    ELSE AddConstrs("c4again", "c5", NoWorkOnVacation, NoWorkOnVacationItems)

\* the attributes of module gurobipy that lines 231-259 read
GurobiExports == {"and_", "quicksum"}

\* lines 231-259: the first element of the generator evaluates gurobipy.and_
\* and then gurobipy.all_, before any constraint is made
AddProjectRealized ==
    IF ProjectRealizedItems # {} /\ {"and_", "all_"} \ GurobiExports # {}
    THEN Raise("c5", "AttributeError")
    ELSE AddConstrs("c5", "c6", ProjectRealized, ProjectRealizedItems)

\* lines 262-269
AddRealizedOnce == AddConstrs("c6", "c7", RealizedOnce, RealizedOnceItems)

\* lines 275-286
AddWorkIfAssigned == AddConstrs("c7", "c8", WorkIfAssigned, WorkIfAssignedItems)

\* lines 291-304
AddStaffedDaysCap == AddConstrs("c8", "optimize", StaffedDaysCap, StaffedDaysCapItems)

\* the statuses optimize can end with on a model with or without a feasible
\* assignment; binary variables leave no unbounded model
SolverStops == {"TIME_LIMIT", "INTERRUPTED"}

Statuses(feasible) ==
    (IF feasible = {} THEN {"INFEASIBLE", "INF_OR_UNBD"} ELSE {"OPTIMAL"}) \cup SolverStops

\* model.getVars() with the values of assignment a
SolvedVars(a) ==
    [i \in 1..Len(VarList) |->
        [key |-> VarList[i], varName |-> VarName(VarList[i]), x |-> a[VarList[i]]]]

\* line 313
Optimize ==
    /\ pc = "optimize"
    /\ optimizeCalls' = optimizeCalls + 1
    /\ \E s \in Statuses(Feasible) :
          /\ status' = s
          /\ IF s = "OPTIMAL"
             THEN \E a \in Optimal :
                     /\ solved' = SolvedVars(a)
                     /\ objVal' = ObjectiveValue(a)
             ELSE UNCHANGED <<solved, objVal>>
    /\ pc' = "report"
    /\ log' = Append(log, "optimize")
    /\ UNCHANGED <<data, profits_jobs, X, Y, Z, objective, constrs, output, exception>>

\* lines 315-346
Report ==
    /\ pc = "report"
    /\ IF IsOptimal(status)
       THEN LET r == ReportLoop(1, <<[fact |-> "found", value |-> objVal]>>)
            IN /\ log' = Append(log, "read")
               /\ IF r.exc # "none"
                  THEN /\ output' = r.lines
                       /\ exception' = r.exc
                       /\ pc' = "raised"
                  ELSE /\ output' = r.lines \o <<[fact |-> "objective", value |-> objVal]>>
                       /\ exception' = exception
                       /\ pc' = "returned"
       ELSE /\ pc' = "returned"
            /\ UNCHANGED <<output, exception, log>>
    /\ UNCHANGED <<data, profits_jobs, X, Y, Z, objective, constrs, optimizeCalls, status,
                   objVal, solved>>

Next ==
    \/ ComputeProfits
    \/ AddVarsX
    \/ AddVarsY
    \/ AddVarsZ
    \/ SetObjective
    \/ AddNeedQualification
    \/ AddOneQualification
    \/ AddOneJobPerDay
    \/ AddNoWorkOnVacation
    \/ AddNoWorkOnVacationAgain
    \/ AddProjectRealized
    \/ AddRealizedOnce
    \/ AddWorkIfAssigned
    \/ AddStaffedDaysCap
    \/ Optimize
    \/ Report

Spec == Init /\ [][Next]_vars

(***************************************************************************)
(* The report as a function of the solver's output: lines 315-345 applied  *)
(* to an optimal model of MaxIndex + 1 employees, jobs, qualifications and *)
(* days.  The solved list holds one variable; the variables left out have  *)
(* value 0 and print nothing (line 318).                                   *)
(***************************************************************************)
LargeCount == MaxIndex + 1

LargeInstance ==
    ProblemData(LargeCount, SubSeq(AllLabels, 1, LargeCount),
                [i \in 1..LargeCount |-> Employee(EmployeeName(i - 1), <<"A">>, <<>>)],
                [i \in 1..LargeCount |->
                    Job(JobName(i - 1), 50, 1, 20, Requirement("A", 1))])

InitReport ==
    /\ data = LargeInstance
    /\ pc = "report"
    /\ profits_jobs = <<>>
    /\ X = <<LargeCount, LargeCount, LargeCount>>
    /\ Y = <<LargeCount, LargeCount, LargeCount>>
    /\ Z = <<LargeCount, LargeCount>>
    /\ objective = [sense |-> "none", coeff |-> <<>>]
    /\ constrs = <<>>
    /\ optimizeCalls = 1
    /\ status = "OPTIMAL"
    /\ objVal = 0
    /\ \E k \in ModelVars, x \in {0, 1} :
          solved = <<[key |-> k, varName |-> VarName(k), x |-> x]>>
    /\ output = <<>>
    /\ exception = "none"
    /\ log = <<>>

ReportSpec == InitReport /\ [][Report]_vars

(***************************************************************************)
(* Properties.                                                             *)
(***************************************************************************)
\* solve_problem has ended: it returned the model or an exception left it
Ended == pc \in {"returned", "raised"}

ProfitsComputed == pc # "profits"

\* the data model's invariant on vacations: every vacation day is a day of
\* the horizon
VacationsInHorizon ==
    \A e \in PyRange(StaffCount) :
        Range(StaffAt(e).vacations) \subseteq PyRange(data.horizon)

\* the value of variable k in the solved list
SolvedValue(k) == solved[CHOOSE i \in DOMAIN solved : solved[i].key = k].x

\* C1: once the profit table is built, the profit of every job j and day d
\* is the job's gain when d <= due_date and otherwise
\* max(gain - daily_penalty * (d - due_date), 0); gain 50, due date 3,
\* daily penalty 20 and day 5 give 10.
C1_ProfitContract ==
    ProfitsComputed =>
        /\ \A k \in DOMAIN profits_jobs :
              LET job == JobAt(k[1])
                  day == k[2]
                  late == job.gain - job.daily_penalty * (day - job.due_date)
              IN /\ day <= job.due_date => profits_jobs[k] = job.gain
                 /\ day > job.due_date /\ late >= 0 => profits_jobs[k] = late
                 /\ day > job.due_date /\ late < 0 => profits_jobs[k] = 0
        /\ data = ScenarioLate => profits_jobs[<<0, 5>>] = 10

\* C1 witness: the table of the late scenario holds 10 for day 5, and a
\* profit floored at 0 for a later day.
C1_Witness ==
    /\ ProfitsComputed
    /\ data = ScenarioLate
    /\ profits_jobs[<<0, 5>>] = 10
    /\ profits_jobs[<<0, 6>>] = 0
    /\ profits_jobs[<<0, 3>>] = 50

\* C2: every profit of the table, and every coefficient of the objective,
\* is a non-negative integer.
C2_ProfitNonNegative ==
    /\ \A k \in DOMAIN profits_jobs : profits_jobs[k] \in Nat
    /\ \A k \in DOMAIN objective.coeff : objective.coeff[k] \in Nat

\* C3: when solve_problem has ended on an instance whose vacation days lie
\* in the horizon, every assignment that satisfies the constraints it built
\* completes each job on exactly one day of the horizon.
C3_SingleCompletion ==
    (Ended /\ VacationsInHorizon) =>
        \A j \in PyRange(JobCount) : \A a \in Assignments :
            SatisfiesAll(a) =>
                SumRange([d \in PyRange(data.horizon) |-> a[<<"Z", j, d>>]],
                         0, data.horizon - 1) = 1

\* the condition of the completion trigger for job j on day d
CompletionCondition(a, j, d) ==
    /\ \A q \in PyRange(QualCount) :
          QualifiedDays(a, j, q, d)
              = Get(JobAt(j).working_days_per_qualification, QualAt(q), 0)
    /\ \E e \in PyRange(StaffCount) : a[<<"X", e, j, d>>] = 1

\* C4: when solve_problem has ended on an instance whose vacation days lie
\* in the horizon, in every assignment that satisfies the constraints it
\* built, Z[j, d] = 1 exactly when every qualification has accumulated its
\* required days through day d and somebody works j on d.
C4_CompletionTrigger ==
    (Ended /\ VacationsInHorizon) =>
        \A j \in PyRange(JobCount) : \A d \in PyRange(data.horizon) :
            \A a \in Assignments :
                SatisfiesAll(a) => (a[<<"Z", j, d>>] = 1 <=> CompletionCondition(a, j, d))

VacationGroupBuilt == \E k \in DOMAIN constrs : constrs[k].name = NoWorkOnVacation

\* C5: building the vacation group never fails, and once it is built every
\* assignment that satisfies the constraints has X[e, j, d] = 0 for every
\* vacation day d of employee e and every job j.
C5_VacationExclusion ==
    /\ exception # "KeyError"
    /\ VacationGroupBuilt =>
          \A i \in NoWorkOnVacationItems : \A a \in Assignments :
              SatisfiesAll(a) => a[<<"X", i[1], i[2], i[3]>>] = 0

\* C6: on the 10-day scenario solve_problem ends with an optimal solve of
\* objective 100 in which the employee works the job on exactly 2 days, both
\* at or before day 5, under qualification "A".
C6_ScenarioLong ==
    (data = ScenarioLong /\ Ended) =>
        /\ status = "OPTIMAL"
        /\ objVal = 100
        /\ Cardinality({d \in PyRange(data.horizon) : SolvedValue(<<"X", 0, 0, d>>) = 1}) = 2
        /\ \A d \in PyRange(data.horizon) : SolvedValue(<<"X", 0, 0, d>>) = 1 => d <= 5
        /\ SolvedValue(<<"Y", 0, 0, 0>>) = 1

\* C7: on the 1-day scenario solve_problem ends with a solve that is
\* infeasible, or optimal with objective 0 and no completion of the job.
C7_ScenarioShort ==
    (data = ScenarioShort /\ Ended) =>
        \/ status \in {"INFEASIBLE", "INF_OR_UNBD"}
        \/ /\ status = "OPTIMAL"
           /\ objVal = 0
           /\ \A d \in PyRange(data.horizon) : SolvedValue(<<"Z", 0, d>>) = 0

\* C8: after an optimize that ended with a status other than optimal,
\* solve_problem prints nothing and returns the model carrying that status.
C8_NonOptimalSilent ==
    (optimizeCalls > 0 /\ status # "OPTIMAL") =>
        /\ output = <<>>
        /\ exception = "none"
        /\ Ended => pc = "returned"

\* C8 witness: an infeasible solve of an instance with a job has returned.
C8_Witness ==
    /\ pc = "returned"
    /\ status = "INFEASIBLE"
    /\ JobCount > 0
    /\ optimizeCalls = 1

\* the domain fact of the variable with key k
FactOf(k) ==
    CASE k[1] = "X" -> [fact |-> "works", employee |-> StaffAt(k[2]).name,
                        job |-> JobAt(k[3]).name, day |-> k[4]]
      [] k[1] = "Y" -> [fact |-> "assigned", employee |-> StaffAt(k[2]).name,
                        job |-> JobAt(k[3]).name, qualification |-> QualAt(k[4])]
      [] k[1] = "Z" -> [fact |-> "finished", job |-> JobAt(k[2]).name, day |-> k[3]]

\* the records of the report, without the two objective lines
Records == SelectSeq(output, LAMBDA l : l.fact \notin {"found", "objective"})

RECURSIVE ExpectedRecords(_)
ExpectedRecords(i) ==
    IF i = 0 THEN <<>>
    ELSE ExpectedRecords(i - 1)
            \o (IF solved[i].x = 1 THEN <<FactOf(solved[i].key)>> ELSE <<>>)

Rank(step) ==
    CASE step = "profits" -> 1
      [] step = "variables" -> 2
      [] step = "objective" -> 3
      [] step = "constraints" -> 3
      [] step = "optimize" -> 4
      [] step = "read" -> 5

\* C10: the statements run in the order profits, variables, objective and
\* constraints, optimize, read; values are read only when the status is
\* optimal; and every run that has ended, on an instance whose vacation days
\* lie in the horizon, has invoked optimize exactly once.
C10_StepOrder ==
    /\ \A i, k \in DOMAIN log : i < k => Rank(log[i]) <= Rank(log[k])
    /\ Cardinality({i \in DOMAIN log : log[i] = "optimize"}) = optimizeCalls
    /\ optimizeCalls <= 1
    /\ (\E i \in DOMAIN log : log[i] = "read") => status = "OPTIMAL"
    /\ (Ended /\ VacationsInHorizon) => optimizeCalls = 1

==========================================================================
